---- MODULE Spec2Model ----
(***************************************************************************)
(* Model of threaded_rng_cache::RngCache (include/threaded_rng_cache.hpp): *)
(* the Chunk buffers, the Producer worker threads with their mutex and     *)
(* condition variable, and the facade's generate() / destruction, each     *)
(* thread advancing one statement (or one critical-section step) at a time.*)
(***************************************************************************)
EXTENDS Integers, Sequences, FiniteSets, TLC

VARIABLES
    mainPc,          \* position of the consumer (main) thread
    count,           \* m_producers.size() as resolved by the public constructor
    rootSeed,        \* seed handed to Producer::create
    rootEngine,      \* state of rootEngine inside Producer::create
    rootDraws,       \* number of draws made from rootEngine
    created,         \* number of Producers constructed so far
    m_activeChunk,   \* RngCache::m_activeChunk (id of the owned Chunk)
    m_nextProducer,  \* RngCache::m_nextProducer (index; count is end())
    target,          \* the Producer generate() is handing off with
    chunk,           \* the Chunk objects: id -> [m_nextIndex, m_values]
    alloc,           \* ids of the Chunk objects that are allocated
    m_chunk,         \* Producer::m_chunk
    m_shutdown,      \* Producer::m_shutdown
    m_engine,        \* Producer::m_engine state
    m_mutex,         \* Producer::m_mutex holder
    waiters,         \* threads blocked on Producer::m_conditionVariable
    pc,              \* position of each Producer's background thread
    fillIdx,         \* next slot std::ranges::generate writes inside fill()
    stopPc,          \* position of the thread running ~RngCache
    stopTarget,      \* the Producer being destroyed
    freed,           \* Producers whose destructor has completed
    childSeed,       \* history: seed each Producer's engine was built from
    spawnDraws,      \* history: rootDraws at the moment each thread was spawned
    fillLog,         \* history: per Producer, the Chunk ids it finished filling
    handoffs,        \* history: the exchanges performed by swapChunk
    out              \* history: the values returned by generate()

vars == <<mainPc, count, rootSeed, rootEngine, rootDraws, created, m_activeChunk,
          m_nextProducer, target, chunk, alloc, m_chunk, m_shutdown, m_engine,
          m_mutex, waiters, pc, fillIdx, stopPc, stopTarget, freed, childSeed,
          spawnDraws, fillLog, handoffs, out>>

(* ------------------------------ bounds --------------------------------- *)
MaxWorkers == 2
ChunkSize == 2
MaxCalls == 5

None == -1
NoSeed == <<>>
Workers == 0 .. (MaxWorkers - 1)
ChunkIds == 0 .. MaxWorkers
Slots == 0 .. (ChunkSize - 1)

(* --------------------------- pure functions ---------------------------- *)
\* sizeof(seed_type) and sizeof(Device::result_type), in bytes
seedSize == 8
deviceSize == 4

\* An unsigned value of n bytes is the sequence of its 2n hexadecimal digits,
\* most significant first.
Digits(n) == 1 .. (2 * n)

\* the seed_type value of a small number x < 16
ToSeed(x) == [i \in Digits(seedSize) |-> IF i = 2 * seedSize THEN x ELSE 0]

\* the Device::result_type value of a small number x < 16
ToDevice(x) == [i \in Digits(deviceSize) |-> IF i = 2 * deviceSize THEN x ELSE 0]

\* integral conversion of a Device::result_type to seed_type (zero extension)
Widen(d) ==
    [i \in Digits(seedSize) |->
        IF i > 2 * (seedSize - deviceSize) THEN d[i - 2 * (seedSize - deviceSize)] ELSE 0]

RECURSIVE BitOr(_, _)
BitOr(a, b) ==
    IF a = 0 THEN b
    ELSE IF b = 0 THEN a
    ELSE (IF (a % 2 = 1) \/ (b % 2 = 1) THEN 1 ELSE 0) + 2 * BitOr(a \div 2, b \div 2)

\* x | y on seed_type
SeedOr(x, y) == [i \in Digits(seedSize) |-> BitOr(x[i], y[i])]

\* x << bits on seed_type, for a shift of whole hexadecimal digits
ShiftLeft(x, bits) ==
    [i \in Digits(seedSize) |->
        IF i + (bits \div 4) <= 2 * seedSize THEN x[i + (bits \div 4)] ELSE 0]

iterations == (seedSize - 1) \div deviceSize

RECURSIVE SeedLoop(_, _, _)
SeedLoop(seed, draws, i) ==
    IF i >= iterations THEN seed
    ELSE SeedLoop(SeedOr(ShiftLeft(seed, deviceSize), Widen(draws[i + 2])), draws, i + 1)

\* randomSeed() given the successive results of device()
randomSeed(draws) == SeedLoop(Widen(draws[1]), draws, 0)

\* the seeds a caller passes, and the words the entropy device returns
SeedArgs == {ToSeed(3)}
DeviceDraws == {ToDevice(1)}

\* EngineT: an opaque engine, modelled as a full-period congruential generator
\* over 16 states; its seeding reads the two low hexadecimal digits of the seed
EngineSeed(seed) == (7 * seed[2 * seedSize] + 5 * seed[2 * seedSize - 1] + 2) % 16
EngineStep(s) == (5 * s + 3) % 16
EngineOut(s) == ToSeed(s)

\* DistributionT::operator()(engine): one engine draw mapped to a result
Distribution(e) == 100 + e

RECURSIVE EngineAfter(_, _)
EngineAfter(s, k) == IF k = 0 THEN s ELSE EngineStep(EngineAfter(s, k - 1))

\* the k-th value (k = 0, 1, ...) of repeatedly invoking distribution(engine)
\* on an engine built from seed
Stream(seed, k) == Distribution(EngineAfter(EngineSeed(seed), k + 1))

\* the i-th value (i = 0, 1, ...) drawn from an engine built from seed
RootDraw(seed, i) == EngineOut(EngineAfter(EngineSeed(seed), i + 1))

(* ------------------------------- Chunk --------------------------------- *)
NewChunk == [m_nextIndex |-> ChunkSize, m_values |-> [s \in Slots |-> 0]]

empty(c) == c.m_nextIndex = ChunkSize

full(c) == c.m_nextIndex = 0

ChunkNextValue(c) == c.m_values[c.m_nextIndex]

\* a next() that leaves the cursor where it is
ChunkNextStuck(c) == c

ChunkNext(c) == [c EXCEPT !.m_nextIndex = c.m_nextIndex + 1]

FillSlotValue(c, i, v) == [c EXCEPT !.m_values[i] = v]

\* a fill() that does not reset the cursor
FillResetNone(c) == c

\* a fill() that resets the cursor one slot too far
FillResetOne(c) == [c EXCEPT !.m_nextIndex = 1]

FillReset(c) == [c EXCEPT !.m_nextIndex = 0]

(* ------------------------------ Producer ------------------------------- *)
\* a Producer constructed already shut down
ProducerInitShutdownSet == TRUE

ProducerInitShutdown == FALSE

\* an exchange that does not wait for the Producer's Chunk to be full
swapWaitConditionAlways(p) == TRUE

swapWaitCondition(p) == m_shutdown[p] \/ full(chunk[m_chunk[p]])

\* a fill loop that does not wait for its Chunk to be handed off
fillWaitConditionAlways(p) == TRUE

\* a fill loop whose wait ignores the shutdown flag
fillWaitConditionNoShutdown(p) == empty(chunk[m_chunk[p]])

fillWaitCondition(p) == m_shutdown[p] \/ empty(chunk[m_chunk[p]])

\* a fill loop that never leaves on shutdown
RunReturnsNever(p) == FALSE

\* run(): "if (m_shutdown) return"
RunReturns(p) == m_shutdown[p]

\* swapChunk: "if (m_shutdown) throw"
SwapThrowsUnlessFull(p) == m_shutdown[p] /\ ~full(chunk[m_chunk[p]])

SwapThrows(p) == m_shutdown[p]

\* a notification that wakes nobody
NotifyNobody(p) == waiters' = waiters

\* std::condition_variable::notify_one: wakes one blocked thread, if any
NotifyOne(p) ==
    IF waiters[p] = {}
    THEN waiters' = waiters
    ELSE \E t \in waiters[p] : waiters' = [waiters EXCEPT ![p] = @ \ {t}]

(* ------------------------------- Init ---------------------------------- *)
Init ==
    /\ mainPc = "start"
    /\ count = 0
    /\ rootSeed = NoSeed
    /\ rootEngine = 0
    /\ rootDraws = 0
    /\ created = 0
    /\ m_activeChunk = None
    /\ m_nextProducer = 0
    /\ target = None
    /\ chunk = [b \in ChunkIds |-> NewChunk]
    /\ alloc = {}
    /\ m_chunk = [p \in Workers |-> None]
    /\ m_shutdown = [p \in Workers |-> FALSE]
    /\ m_engine = [p \in Workers |-> 0]
    /\ m_mutex = [p \in Workers |-> "free"]
    /\ waiters = [p \in Workers |-> {}]
    /\ pc = [p \in Workers |-> "none"]
    /\ fillIdx = [p \in Workers |-> 0]
    /\ stopPc = "none"
    /\ stopTarget = None
    /\ freed = {}
    /\ childSeed = [p \in Workers |-> NoSeed]
    /\ spawnDraws = [p \in Workers |-> None]
    /\ fillLog = [p \in Workers |-> <<>>]
    /\ handoffs = <<>>
    /\ out = <<>>


(* --------------------------- construction ------------------------------ *)
\* RngCache::RngCache (public, delegating to private): resolves the optional
\* seed and thread count, allocates the active Chunk, enters Producer::create
RngCacheCtor ==
    /\ mainPc = "start"
    /\ \E seedArg \in SeedArgs \cup {NoSeed},
          threadCount \in (0 .. MaxWorkers) \cup {None},
          hardware_concurrency \in 0 .. MaxWorkers,
          d0 \in DeviceDraws, d1 \in DeviceDraws :
          LET seed == IF seedArg # NoSeed THEN seedArg ELSE randomSeed(<<d0, d1>>)
              n == IF threadCount # None THEN threadCount ELSE hardware_concurrency
          IN /\ rootSeed' = seed
             /\ rootEngine' = EngineSeed(seed)
             /\ count' = n
    /\ m_activeChunk' = 0
    /\ alloc' = {0}
    /\ chunk' = [chunk EXCEPT ![0] = NewChunk]
    /\ mainPc' = "create"
    /\ UNCHANGED <<rootDraws, created, m_nextProducer, target, m_chunk, m_shutdown,
                   m_engine, m_mutex, waiters, pc, fillIdx, stopPc, stopTarget,
                   freed, childSeed, spawnDraws, fillLog, handoffs, out>>

\* a loop body that draws two values from rootEngine for each Producer
CreateRootDrawsTwo(n) == n + 2

\* the number of draws made from rootEngine once "rootEngine()" has run
CreateRootDraws(n) == n + 1

\* a rootEngine that is not advanced by a draw
RootEngineNextStuck(s) == s

\* "rootEngine()": the state of rootEngine after the draw
RootEngineNext(s) == EngineStep(s)

\* one iteration of std::ranges::generate in Producer::create: draw the child
\* seed, construct the Producer (its Chunk, its engine) and spawn its thread
CreateProducer ==
    /\ mainPc = "create"
    /\ created < count
    /\ LET p == created
           s == RootEngineNext(rootEngine)
           seed == EngineOut(s)
       IN /\ rootEngine' = s
          /\ rootDraws' = CreateRootDraws(rootDraws)
          /\ childSeed' = [childSeed EXCEPT ![p] = seed]
          /\ spawnDraws' = [spawnDraws EXCEPT ![p] = CreateRootDraws(rootDraws)]
          /\ m_shutdown' = [m_shutdown EXCEPT ![p] = ProducerInitShutdown]
          /\ m_chunk' = [m_chunk EXCEPT ![p] = p + 1]
          /\ alloc' = alloc \cup {p + 1}
          /\ chunk' = [chunk EXCEPT ![p + 1] = NewChunk]
          /\ m_engine' = [m_engine EXCEPT ![p] = EngineSeed(seed)]
          /\ pc' = [pc EXCEPT ![p] = "lock"]
          /\ created' = created + 1
    /\ UNCHANGED <<mainPc, count, rootSeed, m_activeChunk, m_nextProducer, target,
                   m_mutex, waiters, fillIdx, stopPc, stopTarget, freed, fillLog,
                   handoffs, out>>

\* Producer::create returns; m_nextProducer(m_producers.begin())
CreateReturn ==
    /\ mainPc = "create"
    /\ created = count
    /\ m_nextProducer' = 0
    /\ mainPc' = "idle"
    /\ UNCHANGED <<count, rootSeed, rootEngine, rootDraws, created, m_activeChunk,
                   target, chunk, alloc, m_chunk, m_shutdown, m_engine, m_mutex,
                   waiters, pc, fillIdx, stopPc, stopTarget, freed, childSeed,
                   spawnDraws, fillLog, handoffs, out>>

(* ------------------------- Producer::run thread ------------------------ *)
\* std::unique_lock lock{m_mutex}
RunLock(p) ==
    /\ pc[p] = "lock"
    /\ m_mutex[p] = "free"
    /\ m_mutex' = [m_mutex EXCEPT ![p] = "worker"]
    /\ pc' = [pc EXCEPT ![p] = "check"]
    /\ UNCHANGED <<mainPc, count, rootSeed, rootEngine, rootDraws, created,
                   m_activeChunk, m_nextProducer, target, chunk, alloc, m_chunk,
                   m_shutdown, m_engine, waiters, fillIdx, stopPc, stopTarget,
                   freed, childSeed, spawnDraws, fillLog, handoffs, out>>

\* m_conditionVariable.wait(lock, fillWaitCondition) evaluating its predicate
\* with the mutex held, then "if (m_shutdown) return;" or the start of fill()
RunCheck(p) ==
    /\ pc[p] = "check"
    /\ IF fillWaitCondition(p)
       THEN IF RunReturns(p)
            THEN /\ m_mutex' = [m_mutex EXCEPT ![p] = "free"]
                 /\ pc' = [pc EXCEPT ![p] = "done"]
                 /\ UNCHANGED <<waiters, fillIdx>>
            ELSE /\ pc' = [pc EXCEPT ![p] = "fill"]
                 /\ fillIdx' = [fillIdx EXCEPT ![p] = 0]
                 /\ UNCHANGED <<m_mutex, waiters>>
       ELSE /\ m_mutex' = [m_mutex EXCEPT ![p] = "free"]
            /\ waiters' = [waiters EXCEPT ![p] = @ \cup {"worker"}]
            /\ pc' = [pc EXCEPT ![p] = "wait"]
            /\ UNCHANGED fillIdx
    /\ UNCHANGED <<mainPc, count, rootSeed, rootEngine, rootDraws, created,
                   m_activeChunk, m_nextProducer, target, chunk, alloc, m_chunk,
                   m_shutdown, m_engine, stopPc, stopTarget, freed, childSeed,
                   spawnDraws, fillLog, handoffs, out>>

\* a blocked wait returns after a notification and re-acquires the mutex
RunWake(p) ==
    /\ pc[p] = "wait"
    /\ "worker" \notin waiters[p]
    /\ m_mutex[p] = "free"
    /\ m_mutex' = [m_mutex EXCEPT ![p] = "worker"]
    /\ pc' = [pc EXCEPT ![p] = "check"]
    /\ UNCHANGED <<mainPc, count, rootSeed, rootEngine, rootDraws, created,
                   m_activeChunk, m_nextProducer, target, chunk, alloc, m_chunk,
                   m_shutdown, m_engine, waiters, fillIdx, stopPc, stopTarget,
                   freed, childSeed, spawnDraws, fillLog, handoffs, out>>

\* a blocked wait may also return with no notification (spurious wake-up)
RunSpurious(p) ==
    /\ pc[p] = "wait"
    /\ "worker" \in waiters[p]
    /\ waiters' = [waiters EXCEPT ![p] = @ \ {"worker"}]
    /\ UNCHANGED <<mainPc, count, rootSeed, rootEngine, rootDraws, created,
                   m_activeChunk, m_nextProducer, target, chunk, alloc, m_chunk,
                   m_shutdown, m_engine, m_mutex, pc, fillIdx, stopPc, stopTarget,
                   freed, childSeed, spawnDraws, fillLog, handoffs, out>>

\* a generator that does not advance its engine
ProducerGenerateEngineStuck(s) == s

\* Producer::generate: m_distribution(m_engine)
ProducerGenerateEngine(s) == EngineStep(s)

ProducerGenerateValue(s) == Distribution(EngineStep(s))

\* Chunk::fill, one element of std::ranges::generate(m_values, generator)
FillSlot(p) ==
    /\ pc[p] = "fill"
    /\ fillIdx[p] < ChunkSize
    /\ chunk' = [chunk EXCEPT ![m_chunk[p]] =
                    FillSlotValue(@, fillIdx[p], ProducerGenerateValue(m_engine[p]))]
    /\ m_engine' = [m_engine EXCEPT ![p] = ProducerGenerateEngine(@)]
    /\ fillIdx' = [fillIdx EXCEPT ![p] = @ + 1]
    /\ UNCHANGED <<mainPc, count, rootSeed, rootEngine, rootDraws, created,
                   m_activeChunk, m_nextProducer, target, alloc, m_chunk,
                   m_shutdown, m_mutex, waiters, pc, stopPc, stopTarget, freed,
                   childSeed, spawnDraws, fillLog, handoffs, out>>

\* Chunk::fill, "m_nextIndex = 0" after the last element
FillEnd(p) ==
    /\ pc[p] = "fill"
    /\ fillIdx[p] = ChunkSize
    /\ chunk' = [chunk EXCEPT ![m_chunk[p]] = FillReset(@)]
    /\ fillLog' = [fillLog EXCEPT ![p] = Append(@, m_chunk[p])]
    /\ pc' = [pc EXCEPT ![p] = "unlock"]
    /\ UNCHANGED <<mainPc, count, rootSeed, rootEngine, rootDraws, created,
                   m_activeChunk, m_nextProducer, target, alloc, m_chunk,
                   m_shutdown, m_engine, m_mutex, waiters, fillIdx, stopPc,
                   stopTarget, freed, childSeed, spawnDraws, handoffs, out>>

\* end of the locked scope in run()
RunUnlock(p) ==
    /\ pc[p] = "unlock"
    /\ m_mutex' = [m_mutex EXCEPT ![p] = "free"]
    /\ pc' = [pc EXCEPT ![p] = "notify"]
    /\ UNCHANGED <<mainPc, count, rootSeed, rootEngine, rootDraws, created,
                   m_activeChunk, m_nextProducer, target, chunk, alloc, m_chunk,
                   m_shutdown, m_engine, waiters, fillIdx, stopPc, stopTarget,
                   freed, childSeed, spawnDraws, fillLog, handoffs, out>>

\* m_conditionVariable.notify_one() at the end of the loop body
RunNotify(p) ==
    /\ pc[p] = "notify"
    /\ NotifyOne(p)
    /\ pc' = [pc EXCEPT ![p] = "lock"]
    /\ UNCHANGED <<mainPc, count, rootSeed, rootEngine, rootDraws, created,
                   m_activeChunk, m_nextProducer, target, chunk, alloc, m_chunk,
                   m_shutdown, m_engine, m_mutex, fillIdx, stopPc, stopTarget,
                   freed, childSeed, spawnDraws, fillLog, handoffs, out>>


(* ----------------------- RngCache::generate (consumer) ------------------ *)
\* a cursor that is never advanced
NextProducerAdvanceStuck(i) == i

\* a cursor that is advanced and never wrapped
NextProducerAdvanceNoWrap(i) == i + 1

\* RngCache::nextProducer: the iterator after "m_nextProducer++" and the wrap
NextProducerAdvance(i) == IF i + 1 = count THEN 0 ELSE i + 1

\* the record of one returned value: the value, the Chunk and slot it was read
\* from, and the number of hand-offs performed so far
Returned(c) ==
    [val |-> ChunkNextValue(chunk[c]), buf |-> c, idx |-> chunk[c].m_nextIndex,
     h |-> Len(handoffs)]

InSwap == mainPc \in {"swap_lock", "swap_check", "swap_wait", "swap_unlock", "swap_notify"}

InCall == InSwap \/ mainPc = "pop"

\* generate(): the emptiness test, then either the return of next() on the
\* active Chunk or the call of nextProducer() that starts a hand-off
Generate ==
    /\ mainPc = "idle"
    /\ stopPc = "none"
    /\ Len(out) < MaxCalls
    /\ IF ~empty(chunk[m_activeChunk])
       THEN /\ out' = Append(out, Returned(m_activeChunk))
            /\ chunk' = [chunk EXCEPT ![m_activeChunk] = ChunkNext(@)]
            /\ UNCHANGED <<mainPc, m_nextProducer, target>>
       ELSE IF m_nextProducer = count
            THEN \* "**m_nextProducer++" on end(): undefined behaviour
                 /\ mainPc' = "ub"
                 /\ UNCHANGED <<m_nextProducer, target, chunk, out>>
            ELSE /\ target' = m_nextProducer
                 /\ m_nextProducer' = NextProducerAdvance(m_nextProducer)
                 /\ mainPc' = "swap_lock"
                 /\ UNCHANGED <<chunk, out>>
    /\ UNCHANGED <<count, rootSeed, rootEngine, rootDraws, created, m_activeChunk,
                   alloc, m_chunk, m_shutdown, m_engine, m_mutex, waiters, pc,
                   fillIdx, stopPc, stopTarget, freed, childSeed, spawnDraws,
                   fillLog, handoffs>>

\* swapChunk: std::unique_lock lock{m_mutex}
SwapLock ==
    /\ mainPc = "swap_lock"
    /\ target \notin freed
    /\ m_mutex[target] = "free"
    /\ m_mutex' = [m_mutex EXCEPT ![target] = "consumer"]
    /\ mainPc' = "swap_check"
    /\ UNCHANGED <<count, rootSeed, rootEngine, rootDraws, created, m_activeChunk,
                   m_nextProducer, target, chunk, alloc, m_chunk, m_shutdown,
                   m_engine, waiters, pc, fillIdx, stopPc, stopTarget, freed,
                   childSeed, spawnDraws, fillLog, handoffs, out>>

\* the record of one exchange: the Producer, the Chunk received and the Chunk
\* given, the received Chunk's content, and the Producer's completed fills
Exchange(p) ==
    [w |-> p, got |-> m_chunk[p], gave |-> m_activeChunk,
     vals |-> chunk[m_chunk[p]].m_values, idx |-> chunk[m_chunk[p]].m_nextIndex,
     gaveIdx |-> chunk[m_activeChunk].m_nextIndex, fills |-> Len(fillLog[p])]

\* an exchange that leaves the Producer its Chunk (a copy, not a swap)
SwapProducerChunkAlias(p) == m_chunk[p]

\* std::swap(m_chunk, otherChunk): the Producer's new Chunk
SwapProducerChunk(p) == m_activeChunk

\* an exchange that leaves the caller its Chunk
SwapCallerChunkKept(p) == m_activeChunk

\* std::swap(m_chunk, otherChunk): the caller's new Chunk
SwapCallerChunk(p) == m_chunk[p]

\* swapChunk: the wait predicate evaluated with the mutex held, then the
\* shutdown test (throw, unwinding the lock) or the exchange
SwapCheck ==
    /\ mainPc = "swap_check"
    /\ target \notin freed
    /\ IF swapWaitCondition(target)
       THEN IF SwapThrows(target)
            THEN /\ m_mutex' = [m_mutex EXCEPT ![target] = "free"]
                 /\ mainPc' = "threw"
                 /\ UNCHANGED <<m_activeChunk, m_chunk, waiters, handoffs>>
            ELSE /\ m_chunk' = [m_chunk EXCEPT ![target] = SwapProducerChunk(target)]
                 /\ m_activeChunk' = SwapCallerChunk(target)
                 /\ handoffs' = Append(handoffs, Exchange(target))
                 /\ mainPc' = "swap_unlock"
                 /\ UNCHANGED <<m_mutex, waiters>>
       ELSE /\ m_mutex' = [m_mutex EXCEPT ![target] = "free"]
            /\ waiters' = [waiters EXCEPT ![target] = @ \cup {"consumer"}]
            /\ mainPc' = "swap_wait"
            /\ UNCHANGED <<m_activeChunk, m_chunk, handoffs>>
    /\ UNCHANGED <<count, rootSeed, rootEngine, rootDraws, created, m_nextProducer,
                   target, chunk, alloc, m_shutdown, m_engine, pc, fillIdx, stopPc,
                   stopTarget, freed, childSeed, spawnDraws, fillLog, out>>

\* the blocked wait in swapChunk returns after a notification
SwapWake ==
    /\ mainPc = "swap_wait"
    /\ target \notin freed
    /\ "consumer" \notin waiters[target]
    /\ m_mutex[target] = "free"
    /\ m_mutex' = [m_mutex EXCEPT ![target] = "consumer"]
    /\ mainPc' = "swap_check"
    /\ UNCHANGED <<count, rootSeed, rootEngine, rootDraws, created, m_activeChunk,
                   m_nextProducer, target, chunk, alloc, m_chunk, m_shutdown,
                   m_engine, waiters, pc, fillIdx, stopPc, stopTarget, freed,
                   childSeed, spawnDraws, fillLog, handoffs, out>>

\* the blocked wait in swapChunk returns with no notification
SwapSpurious ==
    /\ mainPc = "swap_wait"
    /\ target \notin freed
    /\ "consumer" \in waiters[target]
    /\ waiters' = [waiters EXCEPT ![target] = @ \ {"consumer"}]
    /\ UNCHANGED <<mainPc, count, rootSeed, rootEngine, rootDraws, created,
                   m_activeChunk, m_nextProducer, target, chunk, alloc, m_chunk,
                   m_shutdown, m_engine, m_mutex, pc, fillIdx, stopPc, stopTarget,
                   freed, childSeed, spawnDraws, fillLog, handoffs, out>>

\* swapChunk: end of the locked scope
SwapUnlock ==
    /\ mainPc = "swap_unlock"
    /\ target \notin freed
    /\ m_mutex' = [m_mutex EXCEPT ![target] = "free"]
    /\ mainPc' = "swap_notify"
    /\ UNCHANGED <<count, rootSeed, rootEngine, rootDraws, created, m_activeChunk,
                   m_nextProducer, target, chunk, alloc, m_chunk, m_shutdown,
                   m_engine, waiters, pc, fillIdx, stopPc, stopTarget, freed,
                   childSeed, spawnDraws, fillLog, handoffs, out>>

\* swapChunk: m_conditionVariable.notify_one()
SwapNotify ==
    /\ mainPc = "swap_notify"
    /\ target \notin freed
    /\ NotifyOne(target)
    /\ mainPc' = "pop"
    /\ UNCHANGED <<count, rootSeed, rootEngine, rootDraws, created, m_activeChunk,
                   m_nextProducer, target, chunk, alloc, m_chunk, m_shutdown,
                   m_engine, m_mutex, pc, fillIdx, stopPc, stopTarget, freed,
                   childSeed, spawnDraws, fillLog, handoffs, out>>

\* generate(): "return m_activeChunk->next()" after the hand-off; next()
\* asserts !empty() and reading past the array is undefined behaviour
Pop ==
    /\ mainPc = "pop"
    /\ m_activeChunk \in alloc
    /\ IF empty(chunk[m_activeChunk])
       THEN /\ mainPc' = "ub"
            /\ UNCHANGED <<chunk, out>>
       ELSE /\ out' = Append(out, Returned(m_activeChunk))
            /\ chunk' = [chunk EXCEPT ![m_activeChunk] = ChunkNext(@)]
            /\ mainPc' = "idle"
    /\ UNCHANGED <<count, rootSeed, rootEngine, rootDraws, created, m_activeChunk,
                   m_nextProducer, target, alloc, m_chunk, m_shutdown, m_engine,
                   m_mutex, waiters, pc, fillIdx, stopPc, stopTarget, freed,
                   childSeed, spawnDraws, fillLog, handoffs>>

(* ------------------------- ~RngCache / stop() --------------------------- *)
\* ~RngCache begins on the consumer thread, between two generate() calls
DestroyBegin ==
    /\ mainPc = "idle"
    /\ stopPc = "none"
    /\ stopPc' = "pick"
    /\ UNCHANGED <<mainPc, count, rootSeed, rootEngine, rootDraws, created,
                   m_activeChunk, m_nextProducer, target, chunk, alloc, m_chunk,
                   m_shutdown, m_engine, m_mutex, waiters, pc, fillIdx, stopTarget,
                   freed, childSeed, spawnDraws, fillLog, handoffs, out>>

\* ~vector destroys the Producers one after the other (in an order the
\* standard library chooses); then m_activeChunk is released
DestroyPick ==
    /\ stopPc = "pick"
    /\ IF freed = 0 .. (count - 1)
       THEN /\ alloc' = alloc \ {m_activeChunk}
            /\ stopPc' = "done"
            /\ UNCHANGED stopTarget
       ELSE /\ \E p \in (0 .. (count - 1)) \ freed : stopTarget' = p
            /\ stopPc' = "stop_lock"
            /\ UNCHANGED alloc
    /\ UNCHANGED <<mainPc, count, rootSeed, rootEngine, rootDraws, created,
                   m_activeChunk, m_nextProducer, target, chunk, m_chunk,
                   m_shutdown, m_engine, m_mutex, waiters, pc, fillIdx, freed,
                   childSeed, spawnDraws, fillLog, handoffs, out>>

\* stop(): std::lock_guard lock{m_mutex}
StopLock ==
    /\ stopPc = "stop_lock"
    /\ m_mutex[stopTarget] = "free"
    /\ m_mutex' = [m_mutex EXCEPT ![stopTarget] = "stopper"]
    /\ stopPc' = "stop_set"
    /\ UNCHANGED <<mainPc, count, rootSeed, rootEngine, rootDraws, created,
                   m_activeChunk, m_nextProducer, target, chunk, alloc, m_chunk,
                   m_shutdown, m_engine, waiters, pc, fillIdx, stopTarget, freed,
                   childSeed, spawnDraws, fillLog, handoffs, out>>

\* stop(): "m_shutdown = true" and the end of the locked scope
StopSet ==
    /\ stopPc = "stop_set"
    /\ m_shutdown' = [m_shutdown EXCEPT ![stopTarget] = TRUE]
    /\ m_mutex' = [m_mutex EXCEPT ![stopTarget] = "free"]
    /\ stopPc' = "stop_notify"
    /\ UNCHANGED <<mainPc, count, rootSeed, rootEngine, rootDraws, created,
                   m_activeChunk, m_nextProducer, target, chunk, alloc, m_chunk,
                   m_engine, waiters, pc, fillIdx, stopTarget, freed, childSeed,
                   spawnDraws, fillLog, handoffs, out>>

\* stop(): m_conditionVariable.notify_one()
StopNotify ==
    /\ stopPc = "stop_notify"
    /\ NotifyOne(stopTarget)
    /\ stopPc' = "stop_join"
    /\ UNCHANGED <<mainPc, count, rootSeed, rootEngine, rootDraws, created,
                   m_activeChunk, m_nextProducer, target, chunk, alloc, m_chunk,
                   m_shutdown, m_engine, m_mutex, pc, fillIdx, stopTarget, freed,
                   childSeed, spawnDraws, fillLog, handoffs, out>>

\* stop(): m_thread.join() returns once run() has returned; the Producer's
\* members (its Chunk among them) are then destroyed
StopJoin ==
    /\ stopPc = "stop_join"
    /\ pc[stopTarget] = "done"
    /\ freed' = freed \cup {stopTarget}
    /\ alloc' = alloc \ {m_chunk[stopTarget]}
    /\ stopPc' = "pick"
    /\ UNCHANGED <<mainPc, count, rootSeed, rootEngine, rootDraws, created,
                   m_activeChunk, m_nextProducer, target, chunk, m_chunk,
                   m_shutdown, m_engine, m_mutex, waiters, pc, fillIdx, stopTarget,
                   childSeed, spawnDraws, fillLog, handoffs, out>>

(* --------------------------- specifications ----------------------------- *)
Worker(p) ==
    \/ RunLock(p)
    \/ RunCheck(p)
    \/ RunWake(p)
    \/ RunSpurious(p)
    \/ FillSlot(p)
    \/ FillEnd(p)
    \/ RunUnlock(p)
    \/ RunNotify(p)

Construct == RngCacheCtor \/ CreateProducer \/ CreateReturn

Consumer ==
    \/ Generate
    \/ SwapLock
    \/ SwapCheck
    \/ SwapWake
    \/ SwapSpurious
    \/ SwapUnlock
    \/ SwapNotify
    \/ Pop

Destroyer == DestroyPick \/ StopLock \/ StopSet \/ StopNotify \/ StopJoin

Next ==
    \/ Construct
    \/ Consumer
    \/ DestroyBegin
    \/ Destroyer
    \/ \E p \in Workers : Worker(p)

\* the cache used through its public interface by one consumer thread, which
\* also destroys it
Spec == Init /\ [][Next]_vars


\* ~RngCache begins on another thread while generate() is executing (misuse)
DestroyConcurrent ==
    /\ InCall
    /\ stopPc = "none"
    /\ stopPc' = "pick"
    /\ UNCHANGED <<mainPc, count, rootSeed, rootEngine, rootDraws, created,
                   m_activeChunk, m_nextProducer, target, chunk, alloc, m_chunk,
                   m_shutdown, m_engine, m_mutex, waiters, pc, fillIdx, stopTarget,
                   freed, childSeed, spawnDraws, fillLog, handoffs, out>>

\* generate() touching a Producer or a Chunk whose destructor has completed:
\* undefined behaviour
ConsumerUseAfterFree ==
    /\ \/ InSwap /\ target \in freed
       \/ mainPc = "pop" /\ m_activeChunk \notin alloc
    /\ mainPc' = "ub"
    /\ UNCHANGED <<count, rootSeed, rootEngine, rootDraws, created, m_activeChunk,
                   m_nextProducer, target, chunk, alloc, m_chunk, m_shutdown,
                   m_engine, m_mutex, waiters, pc, fillIdx, stopPc, stopTarget,
                   freed, childSeed, spawnDraws, fillLog, handoffs, out>>

NextMisuse ==
    \/ Next
    \/ DestroyConcurrent
    \/ ConsumerUseAfterFree

\* the cache destroyed by a second thread, possibly during a generate() call
SpecMisuse == Init /\ [][NextMisuse]_vars

\* Fair scheduling: every thread that can take a step eventually takes one,
\* and a thread blocked on a mutex that is released again and again eventually
\* acquires it. Spurious wake-ups and the start of a new call are not forced.
WorkerProgress(p) ==
    RunCheck(p) \/ FillSlot(p) \/ FillEnd(p) \/ RunUnlock(p) \/ RunNotify(p)

WorkerAcquire(p) == RunLock(p) \/ RunWake(p)

ConsumerProgress == SwapCheck \/ SwapUnlock \/ SwapNotify \/ Pop

ConsumerAcquire == SwapLock \/ SwapWake

DestroyerProgress == DestroyPick \/ StopSet \/ StopNotify \/ StopJoin

Fairness ==
    /\ WF_vars(Construct)
    /\ WF_vars(ConsumerProgress)
    /\ SF_vars(ConsumerAcquire)
    /\ WF_vars(DestroyerProgress)
    /\ SF_vars(StopLock)
    /\ \A p \in Workers : WF_vars(WorkerProgress(p)) /\ SF_vars(WorkerAcquire(p))

FairSpec == Init /\ [][Next]_vars /\ Fairness


(* ------------------------------- claims --------------------------------- *)
\* the number of hand-offs before the k-th that were with the same Producer
EarlierWith(k) ==
    Cardinality({k2 \in 1 .. (k - 1) : handoffs[k2].w = handoffs[k].w})

\* C1: for N >= 1 workers, under every interleaving, the k-th hand-off
\* (k = 0, 1, ...) is with Worker k mod N, and the n-th returned value
\* (n = 0, 1, ...) is read at slot n mod chunkSize of the Chunk obtained in
\* hand-off n div chunkSize: chunkSize values per hand-off, in index order,
\* all from that one Chunk; the first call performs hand-off 0 with Worker 0.
C1_RoundRobinChunks ==
    count >= 1 =>
        /\ \A k \in 1 .. Len(handoffs) : handoffs[k].w = (k - 1) % count
        /\ \A n \in 1 .. Len(out) :
              /\ out[n].h = ((n - 1) \div ChunkSize) + 1
              /\ out[n].idx = (n - 1) % ChunkSize
              /\ out[n].buf = handoffs[out[n].h].got
        /\ Len(handoffs) <= (Len(out) \div ChunkSize) + 1

\* C1 witness: two workers, the cursor has wrapped (a third hand-off happened)
\* and a value of the third chunk was returned
C1_Witness ==
    /\ count = 2
    /\ Len(handoffs) >= 3
    /\ Len(out) > 2 * ChunkSize

\* C2: the j-th Chunk received from Worker i holds draws j*chunkSize ..
\* (j+1)*chunkSize-1 of the stream distribution(engine_i) from its sub-seed,
\* in generation order; every returned value is the one the Chunk held when
\* it was handed off (no later fill overwrote it before it was read).
C2_WorkerStream ==
    /\ \A k \in 1 .. Len(handoffs) :
          LET e == handoffs[k]
          IN e.vals = [s \in Slots |->
                          Stream(childSeed[e.w], EarlierWith(k) * ChunkSize + s)]
    /\ \A n \in 1 .. Len(out) :
          out[n].val = handoffs[out[n].h].vals[out[n].idx]
    /\ (Len(handoffs) > 0 /\ m_activeChunk \in alloc) =>
          chunk[m_activeChunk].m_values = handoffs[Len(handoffs)].vals

\* C2 witness: some Worker has handed off its second Chunk and a value of it
\* was returned
C2_Witness ==
    \E n \in 1 .. Len(out) : EarlierWith(out[n].h) = 1

\* the n-th value (n = 1, 2, ...) a cache returns, from its construction
\* parameters alone
Expected(seed, workerCount, n) ==
    LET c == (n - 1) \div ChunkSize
        w == c % workerCount
        j == c \div workerCount
    IN Stream(RootDraw(seed, w), j * ChunkSize + ((n - 1) % ChunkSize))

\* C3: the n-th value returned by generate() depends only on (seed,
\* workerCount, distribution, chunkSize, n), whatever the scheduling of the
\* worker threads; two identically constructed caches thus return the same
\* sequence.
C3_Deterministic ==
    count >= 1 =>
        \A n \in 1 .. Len(out) : out[n].val = Expected(rootSeed, count, n)

\* C3 witness: with two workers, every allowed call has returned and both
\* workers have contributed
C3_Witness ==
    /\ count = 2
    /\ Len(out) = MaxCalls
    /\ Len(handoffs) >= 2

\* the Producers that exist (constructed, destructor not completed)
Live == (0 .. (created - 1)) \ freed

\* the Chunks owned: by the facade, and by each live Producer
Owned == (IF m_activeChunk \in alloc THEN {m_activeChunk} ELSE {})
             \cup {m_chunk[p] : p \in Live}

OwnershipInv ==
    /\ \A p \in Live : m_chunk[p] # m_activeChunk
    /\ \A p, q \in Live : p # q => m_chunk[p] # m_chunk[q]
    /\ alloc = Owned
    /\ mainPc \notin {"start"} /\ stopPc # "done" => m_activeChunk \in alloc
    /\ \A p \in Live : pc[p] = "fill" => m_chunk[p] # m_activeChunk

\* a step that changes which Chunk an existing holder holds is the exchange
\* of swapChunk, made by the consumer holding that Producer's mutex
OwnershipStep ==
    (\/ (mainPc # "start" /\ m_activeChunk' # m_activeChunk)
     \/ \E p \in Live : m_chunk'[p] # m_chunk[p])
    => /\ mainPc = "swap_check"
       /\ m_mutex[target] = "consumer"
       /\ m_mutex'[target] = "consumer"
       /\ m_chunk'[target] = m_activeChunk
       /\ m_activeChunk' = m_chunk[target]
       /\ \A p \in Live \ {target} : m_chunk'[p] = m_chunk[p]

\* C4: in every reachable state each allocated Chunk is held by exactly one
\* of {facade, live Workers} and each of them holds one; holders change only
\* by the exchange in swapChunk under the Worker's mutex; no worker thread is
\* inside fill() on the Chunk the consumer reads.
C4_ExclusiveOwnership == []OwnershipInv /\ [][OwnershipStep]_vars

\* C4 witness: after a hand-off, the consumer holds a partly read Chunk while
\* the Worker is inside fill() on the Chunk it received
C4_Witness ==
    /\ Len(handoffs) >= 1
    /\ mainPc = "idle"
    /\ ~empty(chunk[m_activeChunk]) /\ ~full(chunk[m_activeChunk])
    /\ \E p \in Live : pc[p] = "fill" /\ fillIdx[p] = 1
                          /\ m_chunk[p] = handoffs[Len(handoffs)].gave


\* C5: with N >= 1 workers, one consumer and no destruction started, under
\* fair scheduling every generate() call that has begun a hand-off returns a
\* value: the consumer is never blocked forever inside swapChunk.
C5_GenerateReturns ==
    \A n \in 0 .. (MaxCalls - 1) :
        (count >= 1 /\ InCall /\ Len(out) = n)
            ~> (mainPc = "idle" /\ Len(out) = n + 1)

\* C5 witness: the consumer is blocked on the condition variable inside
\* swapChunk for a Worker that is refilling after an earlier hand-off
C5_Witness ==
    /\ mainPc = "swap_wait"
    /\ "consumer" \in waiters[target]
    /\ Len(fillLog[target]) >= 1
    /\ pc[target] = "fill"

AllJoined ==
    /\ stopPc = "done"
    /\ \A p \in 0 .. (count - 1) : pc[p] = "done" /\ p \in freed

\* C6: once destruction has started, from whatever state the Workers are in,
\* under fair scheduling every Worker thread terminates and every join
\* returns; no Worker thread stays blocked on its condition variable after its
\* shutdown flag was set.
C6_DestroyTerminates ==
    /\ (stopPc # "none") ~> AllJoined
    /\ \A p \in Workers : (m_shutdown[p] /\ pc[p] # "none") ~> (pc[p] = "done")

\* C6 witness: stop() is about to take the mutex of a Worker that is in the
\* middle of a fill
C6_Witness ==
    /\ stopPc = "stop_lock"
    /\ pc[stopTarget] = "fill"
    /\ fillIdx[stopTarget] = 1

\* C7: used through generate() by one consumer that destroys the cache only
\* between calls, swapChunk never executes for a Worker whose shutdown flag is
\* set, and the closed-instance error is never raised.
C7_NoClosedAccess ==
    /\ mainPc # "threw"
    /\ InSwap => ~m_shutdown[target]

\* C7 witness: the cache was used for hand-offs with every Worker and then
\* destroyed completely
C7_Witness ==
    /\ count = 2
    /\ Len(handoffs) >= 3
    /\ AllJoined

\* the consumer's step out of the wait of swapChunk with the flag set
SwapLeavesWaitShutdown ==
    /\ mainPc = "swap_check"
    /\ target \notin freed
    /\ m_shutdown[target]
    /\ mainPc' # mainPc

\* C8: when swapChunk leaves its wait with the shutdown flag set it throws and
\* exchanges nothing: both Chunk pointers and every Chunk's content are as
\* before, the mutex is released, nobody is notified by that call (the call
\* has ended: no later notify), also when the Worker's Chunk is full.
C8_ThrowNoExchange ==
    [][/\ SwapLeavesWaitShutdown =>
            /\ mainPc' = "threw"
            /\ m_activeChunk' = m_activeChunk
            /\ m_chunk' = m_chunk
            /\ chunk' = chunk
            /\ handoffs' = handoffs
            /\ m_mutex[target] = "consumer" /\ m_mutex'[target] = "free"
            /\ waiters' = waiters
       /\ mainPc = "threw" => mainPc' = "threw"]_vars

\* C8 witness: swapChunk has thrown while the Worker's Chunk was full
C8_Witness ==
    /\ mainPc = "threw"
    /\ target \notin freed
    /\ full(chunk[m_chunk[target]])
    /\ m_activeChunk # m_chunk[target]
    /\ empty(chunk[m_activeChunk])

\* C9: a constructed cache has at least one Worker (a count of 0, passed or
\* reported by the hardware query, is rejected or coerced to 1), so the
\* round-robin cursor designates a Worker and generate() never dereferences
\* the past-the-end position.
C9_NonEmptyPool ==
    /\ mainPc \notin {"start", "create"} => (count >= 1 /\ m_nextProducer < count)
    /\ mainPc # "ub"

\* C10: with one Worker, the consumer and the Worker alternate ownership of
\* the same two Chunks: every hand-off exchanges them, the Worker completes
\* exactly one fill between consecutive hand-offs (one before the first), of
\* the Chunk it just received, and the consumer's Chunk is never the one
\* being filled.
C10_DoubleBuffering ==
    count = 1 =>
        /\ \A k \in 1 .. Len(handoffs) :
              /\ handoffs[k].got = k % 2
              /\ handoffs[k].gave = (k + 1) % 2
              /\ handoffs[k].fills = k
        /\ Len(fillLog[0]) <= Len(handoffs) + 1
        /\ \A f \in 1 .. Len(fillLog[0]) :
              fillLog[0][f] = IF f = 1 THEN 1 ELSE handoffs[f - 1].gave
        /\ (pc[0] \in {"fill", "unlock"}) => m_chunk[0] # m_activeChunk

\* C10 witness: one Worker, three hand-offs, and the Worker has completed the
\* fill that follows the third
C10_Witness ==
    /\ count = 1
    /\ Len(handoffs) >= 3
    /\ Len(fillLog[0]) = Len(handoffs) + 1


\* the number of hand-offs performed with Producer p
HandoffsWith(p) == Cardinality({k \in 1 .. Len(handoffs) : handoffs[k].w = p})

\* C11: at every exchange the Worker's Chunk is full (cursor 0, written by one
\* fill completed since the Worker last received it) and the caller's Chunk is
\* empty; the exchange is followed by a notification after which the Worker's
\* thread is not blocked on the condition variable.
C11_ExchangeFullForEmpty ==
    /\ [](\A k \in 1 .. Len(handoffs) :
            LET e == handoffs[k]
            IN /\ e.idx = 0
               /\ e.gaveIdx = ChunkSize
               /\ e.fills = EarlierWith(k) + 1
               /\ fillLog[e.w][e.fills] = e.got)
    /\ [](mainPc = "swap_unlock" => m_mutex[target] = "consumer")
    /\ [][/\ mainPc = "swap_unlock" => mainPc' \in {"swap_unlock", "swap_notify"}
          /\ mainPc = "swap_notify" /\ mainPc' # mainPc =>
                /\ mainPc' = "pop"
                /\ "worker" \notin waiters'[target]]_vars

\* C11 witness: a second exchange with the same Worker was made and notified,
\* and the Worker's thread, which was blocked with a full Chunk, is runnable
C11_Witness ==
    /\ mainPc = "pop"
    /\ EarlierWith(Len(handoffs)) >= 1
    /\ pc[target] = "wait"
    /\ "worker" \notin waiters[target]

\* C12: the shutdown flag is never set while the Worker's thread is inside a
\* fill (stop() needs the mutex the fill holds), so no fill starts once it is
\* set; a fill is left only with every slot written and the cursor reset; and
\* the thread terminates only from its wait point, with the flag set.
C12_ShutdownAtWaitPoint ==
    /\ [](\A p \in Workers : pc[p] \in {"fill", "unlock"} =>
            ~m_shutdown[p] /\ m_mutex[p] = "worker")
    /\ [][\A p \in Workers :
            /\ (pc[p] = "fill" /\ pc'[p] # "fill") =>
                  /\ fillIdx[p] = ChunkSize
                  /\ pc'[p] = "unlock"
                  /\ full(chunk'[m_chunk[p]])
            /\ (pc[p] # "done" /\ pc'[p] = "done") =>
                  pc[p] = "check" /\ m_shutdown[p]
            /\ m_shutdown[p] =>
                  /\ fillLog'[p] = fillLog[p]
                  /\ m_engine'[p] = m_engine[p]
                  /\ m_shutdown'[p]]_vars

\* C12 witness: stop() waits for the mutex while the fill it found in progress
\* has written every slot and reset the cursor
C12_Witness ==
    /\ stopPc = "stop_lock"
    /\ pc[stopTarget] = "unlock"
    /\ full(chunk[m_chunk[stopTarget]])
    /\ ~m_shutdown[stopTarget]


\* the number of hand-offs generate() has started
HandoffsBegun ==
    Len(handoffs) + (IF mainPc \in {"swap_lock", "swap_check", "swap_wait"} THEN 1 ELSE 0)

\* C13: for N >= 1, after construction the round-robin cursor always
\* designates one of the N Workers; a generate() call that starts a hand-off
\* moves it by one position, from N-1 back to 0, and hands off with the Worker
\* it designated; every other step of generate() leaves it unchanged.
C13_CursorValid ==
    /\ []((count >= 1 /\ mainPc \notin {"start", "create"}) =>
            /\ m_nextProducer \in 0 .. (count - 1)
            /\ m_nextProducer = HandoffsBegun % count)
    /\ [][(count >= 1 /\ mainPc \notin {"start", "create"}) =>
            IF mainPc = "idle" /\ mainPc' = "swap_lock"
            THEN /\ target' = m_nextProducer
                 /\ m_nextProducer' = (m_nextProducer + 1) % count
            ELSE m_nextProducer' = m_nextProducer]_vars

\* C13 witness: with two Workers the cursor is back at Worker 0 after two
\* hand-offs and a call without hand-off has returned since
C13_Witness ==
    /\ count = 2
    /\ mainPc = "idle"
    /\ Len(handoffs) = 2
    /\ m_nextProducer = 0
    /\ out[Len(out)].idx = 1

\* C14 (as claimed): every sub-seed is drawn before any Worker thread is
\* spawned, so each thread is spawned with all workerCount draws made.
C14_AllDrawsBeforeFirstSpawn ==
    \A p \in Workers : pc[p] # "none" => spawnDraws[p] = count

\* C14 (amended): sub-seed i is drawn by the constructing thread just before
\* Worker i's thread is spawned, Workers 0 .. i-1 already running; draws are
\* made only by Producer::create, one per Worker, none after construction.
C14_DrawBeforeOwnSpawn ==
    /\ [](\A p \in Workers : pc[p] # "none" => spawnDraws[p] = p + 1)
    /\ [](rootDraws = created)
    /\ [][(rootDraws' # rootDraws \/ rootEngine' # rootEngine) =>
            /\ mainPc \in {"start", "create"}
            /\ mainPc = "create" =>
                  /\ pc[created] = "none"
                  /\ pc'[created] = "lock"
                  /\ rootDraws' = rootDraws + 1]_vars

\* C14 witness: the second sub-seed is not drawn yet while Worker 0's thread
\* is already inside its first fill
C14_Witness ==
    /\ mainPc = "create"
    /\ count = 2
    /\ created = 1
    /\ rootDraws = 1
    /\ pc[0] = "fill"
    /\ fillIdx[0] = 1

\* C15: construction draws exactly workerCount values from a root engine
\* built from the root seed, one after the other, and the Worker at position
\* i is seeded with the i-th draw; no draw is skipped, shared or in excess.
C15_SubSeeds ==
    /\ rootDraws = created
    /\ created <= count
    /\ mainPc \notin {"start", "create"} => rootDraws = count
    /\ \A p \in 0 .. (created - 1) : childSeed[p] = RootDraw(rootSeed, p)
    /\ mainPc # "start" => rootEngine = EngineAfter(EngineSeed(rootSeed), rootDraws)

\* C15 witness: two Workers were constructed, with different sub-seeds
C15_Witness ==
    /\ mainPc = "idle"
    /\ count = 2
    /\ created = 2
    /\ childSeed[0] # childSeed[1]


\* the concatenation of two device words, each in its own field of the
\* device's width
Concatenated(d0, d1) ==
    [i \in Digits(seedSize) |->
        IF i <= 2 * (seedSize - deviceSize)
        THEN d0[i + 2 * (2 * deviceSize - seedSize)]
        ELSE d1[i - 2 * (seedSize - deviceSize)]]

\* C16: a seed made by randomSeed() is the concatenation of the successive
\* entropy draws, each in its own non-overlapping field of the device's
\* bit-width: for a 64-bit seed and a 32-bit device, d0 * 2^32 + d1.
C16_SeedConcatenatesDraws ==
    (rootSeed # NoSeed /\ rootSeed \notin SeedArgs) =>
        \E d0 \in DeviceDraws, d1 \in DeviceDraws : rootSeed = Concatenated(d0, d1)


\* generate() is called with a value left in the active Chunk
FastPathReady ==
    /\ mainPc = "idle"
    /\ stopPc = "none"
    /\ Len(out) < MaxCalls
    /\ ~empty(chunk[m_activeChunk])

\* C17: with the active Chunk not empty, generate() can always run, whatever
\* the worker threads hold or do; it returns the value at the cursor and
\* advances that cursor by one, and changes nothing else: no mutex, no
\* waiter, no Worker's Chunk, flag or thread position, not the round-robin
\* cursor, and the consumer is left between calls.
C17_FastPath ==
    /\ [](FastPathReady => ENABLED Generate)
    /\ [][(FastPathReady /\ out' # out) =>
            /\ out' = Append(out, [val |-> chunk[m_activeChunk].m_values[
                                               chunk[m_activeChunk].m_nextIndex],
                                   buf |-> m_activeChunk,
                                   idx |-> chunk[m_activeChunk].m_nextIndex,
                                   h |-> Len(handoffs)])
            /\ chunk'[m_activeChunk].m_nextIndex = chunk[m_activeChunk].m_nextIndex + 1
            /\ chunk'[m_activeChunk].m_values = chunk[m_activeChunk].m_values
            /\ \A b \in ChunkIds \ {m_activeChunk} : chunk'[b] = chunk[b]
            /\ mainPc' = "idle"
            /\ UNCHANGED <<m_activeChunk, m_nextProducer, m_chunk, m_shutdown,
                           m_engine, m_mutex, waiters, pc, fillIdx, handoffs,
                           fillLog>>]_vars

\* C17 witness: a value was returned without hand-off while a Worker's thread
\* holds its mutex in the middle of a fill
C17_Witness ==
    /\ mainPc = "idle"
    /\ Len(out) >= 1
    /\ out[Len(out)].idx >= 1
    /\ \E p \in Live : pc[p] = "fill" /\ fillIdx[p] = 1 /\ m_mutex[p] = "worker"


\* the number of values returned since the latest hand-off
ReadSinceHandoff ==
    Cardinality({n \in 1 .. Len(out) : out[n].h = Len(handoffs)})

\* C18: every Chunk's cursor stays in [0, chunkSize] and next() is never
\* called on an empty Chunk; a newly constructed Chunk is empty; a Chunk is
\* full and not empty when fill() returns; and the Chunk received in a
\* hand-off has had as many next() calls as its cursor says, so it is empty
\* after exactly chunkSize of them and not before.
C18_CursorRange ==
    /\ [](/\ \A b \in ChunkIds : chunk[b].m_nextIndex \in 0 .. ChunkSize
          /\ count >= 1 => mainPc # "ub"
          /\ \A n \in 1 .. Len(out) : out[n].idx \in 0 .. (ChunkSize - 1)
          /\ (Len(handoffs) >= 1 /\ m_activeChunk \in alloc) =>
                /\ chunk[m_activeChunk].m_nextIndex = ReadSinceHandoff
                /\ empty(chunk[m_activeChunk]) <=> ReadSinceHandoff = ChunkSize)
    /\ [][/\ \A b \in ChunkIds : (b \notin alloc /\ b \in alloc') =>
                empty(chunk'[b]) /\ ~full(chunk'[b])
          /\ \A p \in Workers : (pc[p] = "fill" /\ pc'[p] # "fill") =>
                full(chunk'[m_chunk[p]]) /\ ~empty(chunk'[m_chunk[p]])]_vars

\* C18 witness: two Chunks were received and read to the end
C18_Witness ==
    /\ mainPc = "idle"
    /\ Len(handoffs) = 2
    /\ Len(out) = 2 * ChunkSize
    /\ empty(chunk[m_activeChunk])

\* C19: a Worker's Chunk is always full or empty, never partly consumed, in
\* particular whenever its mutex is free; so, shutdown not requested, exactly
\* one of the two wait conditions is true, at most one thread is blocked on
\* the Worker's condition variable, and a notify_one has one possible target.
C19_OneWaiter ==
    \A p \in Live :
        /\ full(chunk[m_chunk[p]]) \/ empty(chunk[m_chunk[p]])
        /\ ~m_shutdown[p] => (swapWaitCondition(p) <=> ~fillWaitCondition(p))
        /\ Cardinality(waiters[p]) <= 1
        /\ "consumer" \in waiters[p] => (mainPc = "swap_wait" /\ target = p)
        /\ "worker" \in waiters[p] => pc[p] = "wait"

\* C19 witness: the consumer is blocked on a Worker's condition variable while
\* that Worker's thread, after an earlier hand-off, is about to notify
C19_Witness ==
    /\ mainPc = "swap_wait"
    /\ waiters[target] = {"consumer"}
    /\ pc[target] = "notify"
    /\ HandoffsWith(target) >= 1

\* C20: each Worker is at most one Chunk ahead: its completed fills minus its
\* hand-offs is 0 or 1; it is inside a fill only on an empty Chunk with no
\* fill pending hand-off; and with a fill pending it holds a full Chunk.
C20_OneChunkAhead ==
    \A p \in Live :
        /\ Len(fillLog[p]) - HandoffsWith(p) \in {0, 1}
        /\ pc[p] \in {"fill"} =>
              /\ Len(fillLog[p]) = HandoffsWith(p)
              /\ empty(chunk[m_chunk[p]])
        /\ Len(fillLog[p]) - HandoffsWith(p) = 1 => full(chunk[m_chunk[p]])
        /\ Len(fillLog[p]) - HandoffsWith(p) = 0 => empty(chunk[m_chunk[p]])

\* C20 witness: a Worker has refilled after a hand-off and is blocked, one
\* Chunk ahead, while the consumer still reads
C20_Witness ==
    \E p \in Live :
        /\ Len(fillLog[p]) = 2
        /\ HandoffsWith(p) = 1
        /\ pc[p] = "wait"
        /\ "worker" \in waiters[p]

====
